---- MODULE Spec2Model ----
(***************************************************************************)
(* MrSablierStaking: the connection supervisor (retry closure of main),    *)
(* the bootstrap load, the core loop over the account stream and the two   *)
(* scheduler scans of client.rs.  The stream event processor and the cache *)
(* maintainers (process_stream_message, update_caches, update_indexes)     *)
(* are modelled after the specification, sections 3, 4.2 and 4.4.          *)
(***************************************************************************)
EXTENDS Integers, Sequences, FiniteSets, TLC

----------------------------------------------------------------------------
(* Bounds of the model *)

\* Number of priority-fee tasks that may be running at once: the retry
\* driver calls the closure again only while fewer are alive.
MaxFeeTasks == 2

----------------------------------------------------------------------------
(* Input domains *)

\* Addresses of the Staking accounts (the ADX and the ALP staking account).
StakingKeys == {"adx", "alp"}

\* Addresses of UserStaking accounts.
UserStakingKeys == {"u1", "u2"}

\* adrena_abi::ROUND_MIN_DURATION_SECONDS, imported at client.rs:4; the value
\* is the one of the specification's example (section 8).
ROUND_MIN_DURATION_SECONDS == 3600

AUTO_CLAIM_THRESHOLD_SECONDS == ROUND_MIN_DURATION_SECONDS * 25

\* A Staking account as far as this program reads it: the start time of the
\* current staking round.
StakingValues == {[round_start_time |-> 0], [round_start_time |-> 100]}

\* Option<i64> is a set with at most one element.
None == {}

Some(t) == {t}

\* A UserStaking account as far as this program reads it: staking_type
\* (0 undefined, 1 LM, 2 LP) and the claim times of its locked stakes.
UserStakingValues ==
    { [staking_type |-> 1, locked_stakes |-> <<Some(100), Some(200)>>],
      [staking_type |-> 1, locked_stakes |-> <<None, Some(200)>>],
      [staking_type |-> 2, locked_stakes |-> <<None, Some(100)>>],
      [staking_type |-> 2, locked_stakes |-> <<None>>],
      [staking_type |-> 0, locked_stakes |-> <<Some(100)>>] }

\* Readings of chrono::Utc::now().timestamp() the scans may observe.
Instants == {3599, 3600, 90099, 90100}

\* Values fetch_mean_priority_fee may return.
FeeSamples == {7}

\* All maps from a subset of K to V (HashMap<K, V>).
PartialMaps(K, V) == UNION {[S -> V] : S \in SUBSET K}

EmptyMap == [k \in {} |-> None]

----------------------------------------------------------------------------
VARIABLES
    pc,                \* position of main's retry closure / core loop
    zero_attempts,     \* true until the retry closure has been called once
    indexed_staking_accounts,
    indexed_user_staking_accounts,
    claim_cache,
    staking_round_next_resolve_time_cache,
    accounts_filter_map,     \* the accounts filter of the request last sent
    periodical_priority_fees_fetching_task,  \* Option<JoinHandle> of the closure
    db_connection_task,                      \* Option<JoinHandle> of the closure
    alive_fee_tasks,   \* the priority-fee tasks that are running
    alive_db_tasks,    \* the db connection tasks that are running
    median_priority_fee,     \* value behind the current attempt's Arc<Mutex<u64>>
    last_message,      \* what the last loop iteration got from the stream
    resolve_scan,      \* record of the resolve scan that just ran
    claim_scan,        \* record of the claim scan that just ran
    live,              \* addresses with a create/update (or merge) and no later close
    fee_mutex,         \* who holds the guard of the current attempt's Mutex<u64>
    fee_task_pc,       \* position of the priority-fee task of the current attempt
    scan_fee,          \* the fee read for the scan under way, passed to its actions
    fee_published,     \* the task of the current attempt has stored a sample
    existing_staking_accounts,      \* result of the Staking scan of the bootstrap under
                                    \* way (empty once the UserStaking scan is made)
    existing_user_staking_accounts  \* result of the UserStaking scan of the bootstrap
                                    \* under way (empty once the stream is consumed)

vars == <<pc, zero_attempts, indexed_staking_accounts, indexed_user_staking_accounts,
          claim_cache, staking_round_next_resolve_time_cache, accounts_filter_map,
          periodical_priority_fees_fetching_task, db_connection_task,
          alive_fee_tasks, alive_db_tasks, median_priority_fee,
          last_message, resolve_scan, claim_scan, live,
          fee_mutex, fee_task_pc, scan_fee, fee_published,
          existing_staking_accounts, existing_user_staking_accounts>>

mirror_vars == <<indexed_staking_accounts, indexed_user_staking_accounts>>

cache_vars == <<claim_cache, staking_round_next_resolve_time_cache>>

task_vars == <<periodical_priority_fees_fetching_task, db_connection_task,
               alive_fee_tasks, alive_db_tasks>>

trace_vars == <<last_message, resolve_scan, claim_scan>>

fee_vars == <<fee_mutex, fee_task_pc, scan_fee, fee_published>>

NoMessage == [kind |-> "none", key |-> "-", result |-> "-"]

NoResolveScan == [ran |-> FALSE, now |-> 0, due |-> {}, invoked |-> {}, failed |-> {}]

NoClaimScan ==
    [ran |-> FALSE, now |-> 0, due |-> {}, evaluated |-> {}, invoked |-> {},
     failure |-> "none", failed_key |-> "-"]

----------------------------------------------------------------------------
(* HashMap operations *)

\* A merge that keeps the value of a key already present
\* (entry(k).or_insert(v) for every pair of new).
ExtendKeepingPresent(m, new) ==
    [k \in DOMAIN m \cup DOMAIN new |-> IF k \in DOMAIN m THEN m[k] ELSE new[k]]

\* HashMap::extend: inserts every pair of new, replacing the value of a key
\* already present.
Extend(m, new) ==
    [k \in DOMAIN m \cup DOMAIN new |-> IF k \in DOMAIN new THEN new[k] ELSE m[k]]

Insert(m, key, value) ==
    [k \in DOMAIN m \cup {key} |-> IF k = key THEN value ELSE m[k]]

Remove(m, key) == [k \in DOMAIN m \ {key} |-> m[k]]

----------------------------------------------------------------------------
(* Derived caches (update_caches) *)

\* An entry that is the start of the round, with no duration added.
NextResolveTimeRoundStart(staking) == staking.round_start_time

\* Time of the next resolve of a Staking account's round.
NextResolveTime(staking) == staking.round_start_time + ROUND_MIN_DURATION_SECONDS

MinOption(a, b) ==
    IF a = None THEN b
    ELSE IF b = None THEN a
    ELSE LET x == CHOOSE t \in a : TRUE
             y == CHOOSE t \in b : TRUE
         IN  IF x <= y THEN a ELSE b

RECURSIVE OldestFrom(_, _, _)
OldestFrom(stakes, i, acc) ==
    IF i > Len(stakes) THEN acc
    ELSE OldestFrom(stakes, i + 1, MinOption(acc, stakes[i]))

\* Claim time of the oldest locked stake of a UserStaking account, None when
\* no locked stake has one.
OldestClaimTimeLatest(user_staking) ==
    LET ts == UNION {user_staking.locked_stakes[i] :
                        i \in 1..Len(user_staking.locked_stakes)}
    IN  IF ts = {} THEN None ELSE {CHOOSE t \in ts : \A u \in ts : u <= t}

OldestClaimTime(user_staking) == OldestFrom(user_staking.locked_stakes, 1, None)

update_staking_round_next_resolve_time_cache(cache, staking_accounts) ==
    Extend(cache, [k \in DOMAIN staking_accounts |-> NextResolveTime(staking_accounts[k])])

update_claim_cache(cache, user_staking_accounts) ==
    Extend(cache, [k \in DOMAIN user_staking_accounts |->
                        OldestClaimTime(user_staking_accounts[k])])

----------------------------------------------------------------------------
(* Subscription filter *)

\* adrena_abi::ID, the program that owns every Staking and UserStaking account.
ProgramId == "adrena_abi::ID"

\* Memcmp at offset 0 against the anchor discriminator of an account type.
DiscriminatorFilter(account_type) == [offset |-> 0, bytes |-> account_type]

\* SubscribeRequestFilterAccounts { account, owner, filters }
FilterAccounts(account, owner, filters) ==
    [account |-> account, owner |-> owner, filters |-> filters]

\* The request no subscription has sent yet.
NoAccountsFilterMap ==
    [staking_create_update |-> FilterAccounts({}, {}, {}),
     user_staking_create_update |-> FilterAccounts({}, {}, {}),
     user_staking_close |-> FilterAccounts({}, {}, {})]

\* A filter map whose close group also lists the Staking accounts and whose
\* create/update group of the UserStaking accounts lists the known ones.
generate_accounts_filter_map_by_address(user_staking_accounts) ==
    [staking_create_update |->
        FilterAccounts({}, {ProgramId}, {DiscriminatorFilter("Staking")}),
     user_staking_create_update |->
        FilterAccounts(DOMAIN user_staking_accounts, {ProgramId},
                       {DiscriminatorFilter("UserStaking")}),
     user_staking_close |->
        FilterAccounts(DOMAIN user_staking_accounts \cup StakingKeys, {}, {})]

\* generate_accounts_filter_map: the two create/update groups select by
\* owner and discriminator and name no account; the "user_staking_close"
\* group names the keys of the indexed UserStaking accounts and nothing
\* else (Staking accounts are not monitored for close events).
generate_accounts_filter_map(user_staking_accounts) ==
    [staking_create_update |->
        FilterAccounts({}, {ProgramId}, {DiscriminatorFilter("Staking")}),
     user_staking_create_update |->
        FilterAccounts({}, {ProgramId}, {DiscriminatorFilter("UserStaking")}),
     user_staking_close |->
        FilterAccounts(DOMAIN user_staking_accounts, {}, {})]

----------------------------------------------------------------------------
(* Initial state: main before the first call of the retry closure *)

Init ==
    /\ pc = "Idle"
    /\ zero_attempts = TRUE
    /\ indexed_staking_accounts = EmptyMap
    /\ indexed_user_staking_accounts = EmptyMap
    /\ claim_cache = EmptyMap
    /\ staking_round_next_resolve_time_cache = EmptyMap
    /\ accounts_filter_map = NoAccountsFilterMap
    /\ periodical_priority_fees_fetching_task = None
    /\ db_connection_task = None
    /\ alive_fee_tasks = {}
    /\ alive_db_tasks = {}
    /\ median_priority_fee = 0
    /\ last_message = NoMessage
    /\ resolve_scan = NoResolveScan
    /\ claim_scan = NoClaimScan
    /\ live = {}
    /\ fee_mutex = "free"
    /\ fee_task_pc = "-"
    /\ scan_fee = None
    /\ fee_published = FALSE
    /\ existing_staking_accounts = EmptyMap
    /\ existing_user_staking_accounts = EmptyMap

----------------------------------------------------------------------------
(* Connection supervisor: one invocation of the retry closure *)

\* The task handles are locals of the closure body: every invocation
\* starts with fresh ones.
FreshTaskHandle == None

\* if let Some(t) = handle.take() { t.abort(); }
Abort(alive, handle) == alive \ handle

\* The closure returns Err(backoff::Error::Transient): the retry driver
\* sleeps and calls the closure again.
ReturnTransient == "Backoff"

\* main returned or panicked: the runtime is gone and every task with it.
Stopped == {"Exited", "Panicked"}

\* The priority-fee tasks left once the closure is at next_pc: a JoinHandle
\* that is dropped detaches its task, so only the end of the process ends one.
FeeTasksAt(next_pc, alive) == IF next_pc \in Stopped THEN {} ELSE alive

\* The db connection tasks left once the closure is at next_pc: when the
\* closure's future ends, its db client is dropped, the connection future
\* completes and the task awaiting it returns.
DbTasksAt(next_pc, alive, handle) ==
    IF next_pc \in Stopped THEN {}
    ELSE IF next_pc = ReturnTransient THEN alive \ handle
    ELSE alive

\* The position of the priority-fee task that the loop shares its Arc with,
\* once the closure is at next_pc: when the closure has returned no loop
\* reads that Arc any more and the task is one of the detached ones.
FeeTaskPcAt(next_pc, at) ==
    IF next_pc \in Stopped \cup {ReturnTransient} THEN "-" ELSE at

\* The guard of that Arc's mutex, likewise.
FeeMutexAt(next_pc, holder) ==
    IF next_pc \in Stopped \cup {ReturnTransient} THEN "free" ELSE holder

\* retry() calls the closure: fresh handles, teardown, zero_attempts.
StartAttempt ==
    /\ UNCHANGED existing_staking_accounts
    /\ UNCHANGED fee_vars
    /\ pc \in {"Idle", "Backoff"}
    /\ Cardinality(alive_fee_tasks) < MaxFeeTasks
    /\ LET fee_handle == FreshTaskHandle
           db_handle == FreshTaskHandle
       IN  /\ alive_fee_tasks' = Abort(alive_fee_tasks, fee_handle)
           /\ alive_db_tasks' = Abort(alive_db_tasks, db_handle)
           /\ periodical_priority_fees_fetching_task' = None
           /\ db_connection_task' = None
    /\ zero_attempts' = FALSE
    /\ pc' = "Connect"
    /\ last_message' = NoMessage
    /\ resolve_scan' = NoResolveScan
    /\ claim_scan' = NoClaimScan
    /\ UNCHANGED <<mirror_vars, cache_vars, accounts_filter_map, median_priority_fee, live,
                   existing_user_staking_accounts>>

\* args.connect() and client.program(): both map their error to transient.
Connect ==
    /\ UNCHANGED existing_staking_accounts
    /\ UNCHANGED fee_vars
    /\ pc = "Connect"
    /\ \E ok \in BOOLEAN : pc' = IF ok THEN "DbConnect" ELSE ReturnTransient
    /\ UNCHANGED <<zero_attempts, mirror_vars, cache_vars, accounts_filter_map, task_vars,
                   median_priority_fee, trace_vars, live,
                   existing_user_staking_accounts>>

\* An attempt that opens the subscription right after the db connection,
\* with the bootstrap left out.
DbConnectThenSubscribe ==
    /\ UNCHANGED existing_staking_accounts
    /\ UNCHANGED fee_vars
    /\ pc = "DbConnect"
    /\ pc' = "Subscribe"
    /\ db_connection_task' = Some(Cardinality(alive_db_tasks) + 1)
    /\ alive_db_tasks' = alive_db_tasks \cup {Cardinality(alive_db_tasks) + 1}
    /\ UNCHANGED <<zero_attempts, mirror_vars, cache_vars, accounts_filter_map,
                   periodical_priority_fees_fetching_task, alive_fee_tasks,
                   median_priority_fee, trace_vars, live,
                   existing_user_staking_accounts>>

\* tokio_postgres::connect, then the spawn of the db connection task.
DbConnect ==
    /\ UNCHANGED existing_staking_accounts
    /\ UNCHANGED fee_vars
    /\ pc = "DbConnect"
    /\ \/ /\ pc' = "ScanStaking"
          /\ db_connection_task' = Some(Cardinality(alive_db_tasks) + 1)
          /\ alive_db_tasks' = alive_db_tasks \cup {Cardinality(alive_db_tasks) + 1}
       \/ /\ pc' = ReturnTransient
          /\ UNCHANGED <<db_connection_task, alive_db_tasks>>
    /\ UNCHANGED <<zero_attempts, mirror_vars, cache_vars, accounts_filter_map,
                   periodical_priority_fees_fetching_task, alive_fee_tasks,
                   median_priority_fee, trace_vars, live,
                   existing_user_staking_accounts>>

----------------------------------------------------------------------------
(* Bootstrap load *)

\* An index of the Staking accounts that is replaced by the scan.
MergeStakingCleared(indexed, existing) == existing

\* indexed_staking_accounts.extend(existing_staking_accounts)
MergeStaking(indexed, existing) == Extend(indexed, existing)

\* A scan result that is merged as it came.
WithStakingTypeAny(existing) == existing

\* filter(|a| a.1.staking_type != 0)
WithStakingType(existing) ==
    [k \in {a \in DOMAIN existing : existing[a].staking_type # 0} |-> existing[k]]

\* A mirror that starts from the scan instead of extending what it holds.
MergeUserStakingCleared(indexed, existing) == WithStakingType(existing)

\* indexed_user_staking_accounts.extend(
\*     existing_user_staking_accounts_with_staking_type)
MergeUserStaking(indexed, existing) == Extend(indexed, WithStakingType(existing))

\* program.accounts::<Staking>() and the merge of its result.
ScanStaking ==
    /\ UNCHANGED fee_vars
    /\ pc = "ScanStaking"
    /\ \/ \E existing \in PartialMaps(StakingKeys, StakingValues) :
            /\ indexed_staking_accounts' = MergeStaking(indexed_staking_accounts, existing)
            /\ existing_staking_accounts' = existing
            /\ pc' = "ScanUserStaking"
       \/ /\ pc' = ReturnTransient
          /\ UNCHANGED <<indexed_staking_accounts, existing_staking_accounts>>
    /\ alive_db_tasks' = DbTasksAt(pc', alive_db_tasks, db_connection_task)
    /\ UNCHANGED <<zero_attempts, indexed_user_staking_accounts, cache_vars,
                   accounts_filter_map, periodical_priority_fees_fetching_task,
                   db_connection_task, alive_fee_tasks, median_priority_fee,
                   trace_vars, live,
                   existing_user_staking_accounts>>

\* The recompute of only one of the two caches.
BootstrapCachesResolveOnly(resolve_cache, claims, staking_accounts, user_staking_accounts) ==
    [resolve |-> update_staking_round_next_resolve_time_cache(resolve_cache, staking_accounts),
     claim |-> claims]

\* update_staking_round_next_resolve_time_cache(..).await;
\* update_claim_cache(..).await;
BootstrapCaches(resolve_cache, claims, staking_accounts, user_staking_accounts) ==
    [resolve |-> update_staking_round_next_resolve_time_cache(resolve_cache, staking_accounts),
     claim |-> update_claim_cache(claims, user_staking_accounts)]

\* program.accounts::<UserStaking>(), the filter, the merge, and the update
\* of both caches for the accounts now indexed.
ScanUserStaking ==
    /\ UNCHANGED fee_vars
    /\ existing_staking_accounts' = EmptyMap
    /\ pc = "ScanUserStaking"
    /\ \/ \E existing \in PartialMaps(UserStakingKeys, UserStakingValues) :
            LET merged == MergeUserStaking(indexed_user_staking_accounts, existing)
                caches == BootstrapCaches(staking_round_next_resolve_time_cache,
                                          claim_cache, indexed_staking_accounts, merged)
            IN  /\ indexed_user_staking_accounts' = merged
                /\ staking_round_next_resolve_time_cache' = caches.resolve
                /\ claim_cache' = caches.claim
                /\ live' = live \cup DOMAIN WithStakingType(existing)
                /\ existing_user_staking_accounts' = existing
                /\ pc' = "Subscribe"
       \/ /\ pc' = ReturnTransient
          /\ UNCHANGED <<indexed_user_staking_accounts, cache_vars, live,
                         existing_user_staking_accounts>>
    /\ alive_db_tasks' = DbTasksAt(pc', alive_db_tasks, db_connection_task)
    /\ UNCHANGED <<zero_attempts, indexed_staking_accounts, accounts_filter_map,
                   periodical_priority_fees_fetching_task, db_connection_task,
                   alive_fee_tasks, median_priority_fee, trace_vars>>

\* generate_accounts_filter_map and grpc.subscribe_with_request.
Subscribe ==
    /\ UNCHANGED existing_staking_accounts
    /\ UNCHANGED fee_vars
    /\ pc = "Subscribe"
    /\ \/ /\ accounts_filter_map' =
                generate_accounts_filter_map(indexed_user_staking_accounts)
          /\ pc' = "SpawnFeeTask"
          /\ UNCHANGED existing_user_staking_accounts
       \/ /\ pc' = ReturnTransient
          /\ existing_user_staking_accounts' = EmptyMap
          /\ UNCHANGED accounts_filter_map
    /\ alive_db_tasks' = DbTasksAt(pc', alive_db_tasks, db_connection_task)
    /\ UNCHANGED <<zero_attempts, mirror_vars, cache_vars,
                   periodical_priority_fees_fetching_task, db_connection_task,
                   alive_fee_tasks, median_priority_fee, trace_vars, live>>

\* median_priority_fee = Arc::new(Mutex::new(0)) and the spawn of the task
\* that refreshes it.
SpawnFeeTask ==
    /\ UNCHANGED existing_staking_accounts
    /\ pc = "SpawnFeeTask"
    /\ median_priority_fee' = 0
    /\ periodical_priority_fees_fetching_task' = Some(Cardinality(alive_fee_tasks) + 1)
    /\ alive_fee_tasks' = alive_fee_tasks \cup {Cardinality(alive_fee_tasks) + 1}
    /\ fee_mutex' = "free"
    /\ fee_task_pc' = "Tick"
    /\ scan_fee' = None
    /\ fee_published' = FALSE
    /\ pc' = "StreamNext"
    /\ existing_user_staking_accounts' = EmptyMap
    /\ UNCHANGED <<zero_attempts, mirror_vars, cache_vars, accounts_filter_map,
                   db_connection_task, alive_db_tasks, trace_vars, live>>

\* A guard that outlives the block it was taken in.
FeeLockKept(holder) == holder

\* The guard fee_lock is a local of the if let block: it is dropped at the
\* end of the block, before the next tick.
FeeLockDropped(holder) == "free"

\* An Arc made once and cloned into the task of every attempt.
SeenByEveryAttempt(task, handle) == TRUE

\* Whether the loop of the attempt that holds `handle` reads the Arc that
\* `task` writes: the Arc is made anew in each attempt and cloned into the
\* one task spawned in that attempt.
SeenByAttempt(task, handle) == handle = Some(task)

\* fee_refresh_interval.tick() and fetch_mean_priority_fee of the task of
\* the current attempt, no guard held: on Ok(fee) the task goes on to lock
\* the mutex, otherwise it waits for the next tick with nothing stored.
FeeTaskTick ==
    /\ UNCHANGED existing_staking_accounts
    /\ pc \in {"StreamNext", "Resolve", "Claim"}
    /\ periodical_priority_fees_fetching_task # None
    /\ periodical_priority_fees_fetching_task \subseteq alive_fee_tasks
    /\ fee_task_pc = "Tick"
    /\ \E fetched \in {"Ok", "Err"} :
         fee_task_pc' = IF fetched = "Ok" THEN "Lock" ELSE "Tick"
    /\ UNCHANGED <<pc, zero_attempts, mirror_vars, cache_vars, accounts_filter_map,
                   task_vars, trace_vars, live, median_priority_fee,
                   fee_mutex, scan_fee, fee_published,
                   existing_user_staking_accounts>>

\* median_priority_fee.lock().await of the task: granted once the guard is
\* free.
FeeTaskLock ==
    /\ UNCHANGED existing_staking_accounts
    /\ fee_task_pc = "Lock"
    /\ fee_mutex = "free"
    /\ fee_mutex' = "task"
    /\ fee_task_pc' = "Assign"
    /\ UNCHANGED <<pc, zero_attempts, mirror_vars, cache_vars, accounts_filter_map,
                   task_vars, trace_vars, live, median_priority_fee,
                   scan_fee, fee_published,
                   existing_user_staking_accounts>>

\* *fee_lock = fee, the log line and the end of the if let block.
FeeTaskAssign ==
    /\ UNCHANGED existing_staking_accounts
    /\ fee_task_pc = "Assign"
    /\ \E fee \in FeeSamples : median_priority_fee' = fee
    /\ fee_published' = TRUE
    /\ fee_mutex' = FeeLockDropped(fee_mutex)
    /\ fee_task_pc' = "Tick"
    /\ UNCHANGED <<pc, zero_attempts, mirror_vars, cache_vars, accounts_filter_map,
                   task_vars, trace_vars, live, scan_fee,
                   existing_user_staking_accounts>>

\* One round of a task that an earlier attempt left running: it stores its
\* sample behind the Arc of its own attempt.
DetachedFeeTaskTick ==
    /\ UNCHANGED existing_staking_accounts
    /\ pc \notin Stopped
    /\ \E task \in alive_fee_tasks, fee \in FeeSamples :
         /\ Some(task) # periodical_priority_fees_fetching_task
         /\ median_priority_fee' =
                IF SeenByAttempt(task, periodical_priority_fees_fetching_task)
                THEN fee ELSE median_priority_fee
    /\ UNCHANGED <<pc, zero_attempts, mirror_vars, cache_vars, accounts_filter_map,
                   task_vars, trace_vars, live, fee_vars,
                   existing_user_staking_accounts>>

----------------------------------------------------------------------------
(* Core loop: one message of the stream *)

\* A transient result that leaves the loop and the closure with the error.
HandleProcessResultTransientReturns(result) ==
    CASE result = "Ok" -> "Resolve"
      [] result = "Permanent" -> "Exited"
      [] result = "Transient" -> ReturnTransient

\* A permanent result that is handed to the retry driver as transient.
HandleProcessResultPermanentRetries(result) ==
    CASE result = "Ok" -> "Resolve"
      [] result = "Permanent" -> ReturnTransient
      [] result = "Transient" -> "Resolve"

\* A loop that reads the next message right after one it processed, with
\* the scans left to the iterations that end otherwise.
HandleProcessResultOkSkipsScans(result) ==
    CASE result = "Ok" -> "StreamNext"
      [] result = "Permanent" -> "Exited"
      [] result = "Transient" -> "Resolve"

\* A permanent result that still lets the scans of its iteration run.
HandleProcessResultPermanentScansFirst(result) ==
    CASE result = "Ok" -> "Resolve"
      [] result = "Permanent" -> "Resolve"
      [] result = "Transient" -> "Resolve"

\* The match on the result of process_stream_message: Ok goes on to the
\* scans, Permanent breaks out of the loop (the closure then returns Ok(())
\* and retry() returns), Transient is logged and goes on to the scans.
HandleProcessResult(result) ==
    CASE result = "Ok" -> "Resolve"
      [] result = "Permanent" -> "Exited"
      [] result = "Transient" -> "Resolve"

\* What every message does to the loop, given the processor's result.
Processed(kind, key, result) ==
    /\ last_message' = [kind |-> kind, key |-> key, result |-> result]
    /\ pc' = HandleProcessResult(result)
    /\ alive_fee_tasks' = FeeTasksAt(pc', alive_fee_tasks)
    /\ alive_db_tasks' = DbTasksAt(pc', alive_db_tasks, db_connection_task)
    /\ resolve_scan' = NoResolveScan
    /\ claim_scan' = NoClaimScan
    /\ fee_task_pc' = FeeTaskPcAt(pc', fee_task_pc)
    /\ fee_mutex' = FeeMutexAt(pc', fee_mutex)
    /\ UNCHANGED <<zero_attempts, periodical_priority_fees_fetching_task,
                   db_connection_task, median_priority_fee, scan_fee, fee_published,
                   existing_staking_accounts>>

\* stream.next() yields Some(Err(status)): the processor returns the error,
\* which main wrapped as transient.
StreamTransportError ==
    /\ pc = "StreamNext"
    /\ Processed("transport_error", "-", "Transient")
    /\ UNCHANGED <<mirror_vars, cache_vars, accounts_filter_map, live,
                   existing_user_staking_accounts>>

\* A message the processor cannot decode.
StreamMalformed ==
    /\ pc = "StreamNext"
    /\ Processed("malformed", "-", "Permanent")
    /\ UNCHANGED <<mirror_vars, cache_vars, accounts_filter_map, live,
                   existing_user_staking_accounts>>

\* A processor that starts the claim cache afresh on a message it has
\* nothing to do for.
StreamOtherClearsClaimCache ==
    /\ pc = "StreamNext"
    /\ Processed("other", "-", "Ok")
    /\ claim_cache' = EmptyMap
    /\ UNCHANGED <<mirror_vars, staking_round_next_resolve_time_cache,
                   accounts_filter_map, live, existing_user_staking_accounts>>

\* Any other message kind (a ping, a pong).
StreamOther ==
    /\ pc = "StreamNext"
    /\ Processed("other", "-", "Ok")
    /\ UNCHANGED <<mirror_vars, cache_vars, accounts_filter_map, live,
                   existing_user_staking_accounts>>

\* A processor that never sends a request on the open stream.
SendNever(filter_map, dirty, user_staking_accounts) == filter_map

\* End of the processor: when the message made the filter map dirty, the
\* regenerated map is sent on the open stream (subscribe_tx) before the
\* processor returns; the stream itself is left as it is.
SendIfDirty(filter_map, dirty, user_staking_accounts) ==
    IF dirty THEN generate_accounts_filter_map(user_staking_accounts) ELSE filter_map

\* Create or update of a Staking account.
StreamStakingUpdate ==
    /\ pc = "StreamNext"
    /\ \E key \in StakingKeys, staking \in StakingValues :
         /\ indexed_staking_accounts' = Insert(indexed_staking_accounts, key, staking)
         /\ staking_round_next_resolve_time_cache' =
                Insert(staking_round_next_resolve_time_cache, key, NextResolveTime(staking))
         /\ Processed("staking_create_update", key, "Ok")
    /\ UNCHANGED <<indexed_user_staking_accounts, claim_cache, accounts_filter_map, live,
                   existing_user_staking_accounts>>

\* A processor that returns from a create or update of a UserStaking account
\* with the index written and the claim cache and the filter map still to do.
StreamUserStakingUpdateIndexOnly ==
    /\ pc = "StreamNext"
    /\ \E key \in UserStakingKeys, user_staking \in UserStakingValues :
         /\ indexed_user_staking_accounts' =
                Insert(indexed_user_staking_accounts, key, user_staking)
         /\ live' = live \cup {key}
         /\ Processed("user_staking_create_update", key, "Ok")
    /\ UNCHANGED <<indexed_staking_accounts, cache_vars, accounts_filter_map,
                   existing_user_staking_accounts>>

\* Create or update of a UserStaking account; a new address makes the
\* processor send the regenerated filter map on the open stream.
StreamUserStakingUpdate ==
    /\ pc = "StreamNext"
    /\ \E key \in UserStakingKeys, user_staking \in UserStakingValues :
         LET indexed == Insert(indexed_user_staking_accounts, key, user_staking)
         IN  /\ indexed_user_staking_accounts' = indexed
             /\ claim_cache' = Insert(claim_cache, key, OldestClaimTime(user_staking))
             /\ accounts_filter_map' =
                    SendIfDirty(accounts_filter_map,
                                key \notin DOMAIN indexed_user_staking_accounts, indexed)
             /\ live' = live \cup {key}
             /\ Processed("user_staking_create_update", key, "Ok")
    /\ UNCHANGED <<indexed_staking_accounts, staking_round_next_resolve_time_cache,
                   existing_user_staking_accounts>>

\* A processor that takes any closed account out, a Staking account too.
StreamCloseAnyAccount ==
    /\ pc = "StreamNext"
    /\ \E key \in accounts_filter_map.user_staking_close.account \cup StakingKeys :
         LET indexed == Remove(indexed_user_staking_accounts, key)
         IN  /\ indexed_user_staking_accounts' = indexed
             /\ claim_cache' = Remove(claim_cache, key)
             /\ indexed_staking_accounts' = Remove(indexed_staking_accounts, key)
             /\ staking_round_next_resolve_time_cache' =
                    Remove(staking_round_next_resolve_time_cache, key)
             /\ accounts_filter_map' = SendIfDirty(accounts_filter_map, TRUE, indexed)
             /\ live' = live \ {key}
             /\ Processed("user_staking_close", key, "Ok")
    /\ UNCHANGED existing_user_staking_accounts

\* Variant: the close takes the account out of the index only and leaves its
\* claim cache entry behind.
StreamUserStakingCloseIndexOnly ==
    /\ pc = "StreamNext"
    /\ \E key \in accounts_filter_map.user_staking_close.account :
         LET indexed == Remove(indexed_user_staking_accounts, key)
         IN  /\ indexed_user_staking_accounts' = indexed
             /\ accounts_filter_map' = SendIfDirty(accounts_filter_map, TRUE, indexed)
             /\ live' = live \ {key}
             /\ Processed("user_staking_close", key, "Ok")
    /\ UNCHANGED <<indexed_staking_accounts, cache_vars,
                   existing_user_staking_accounts>>

\* Close of a watched UserStaking account: removed from the index and from
\* the claim cache, and the regenerated filter map is sent.
StreamUserStakingClose ==
    /\ pc = "StreamNext"
    /\ \E key \in accounts_filter_map.user_staking_close.account :
         LET indexed == Remove(indexed_user_staking_accounts, key)
         IN  /\ indexed_user_staking_accounts' = indexed
             /\ claim_cache' = Remove(claim_cache, key)
             /\ accounts_filter_map' = SendIfDirty(accounts_filter_map, TRUE, indexed)
             /\ live' = live \ {key}
             /\ Processed("user_staking_close", key, "Ok")
    /\ UNCHANGED <<indexed_staking_accounts, staking_round_next_resolve_time_cache,
                   existing_user_staking_accounts>>

\* Variant: the end of the stream is returned as a transient error.
StreamEndedReturnsTransient ==
    /\ UNCHANGED existing_staking_accounts
    /\ UNCHANGED fee_vars
    /\ pc = "StreamNext"
    /\ last_message' = [kind |-> "stream_end", key |-> "-", result |-> "-"]
    /\ pc' = ReturnTransient
    /\ resolve_scan' = NoResolveScan
    /\ claim_scan' = NoClaimScan
    /\ UNCHANGED <<zero_attempts, mirror_vars, cache_vars, accounts_filter_map, task_vars,
                   median_priority_fee, live,
                   existing_user_staking_accounts>>

\* stream.next() yields None: the if let is skipped.
StreamEnded ==
    /\ UNCHANGED existing_staking_accounts
    /\ UNCHANGED fee_vars
    /\ pc = "StreamNext"
    /\ last_message' = [kind |-> "stream_end", key |-> "-", result |-> "-"]
    /\ pc' = "Resolve"
    /\ resolve_scan' = NoResolveScan
    /\ claim_scan' = NoClaimScan
    /\ UNCHANGED <<zero_attempts, mirror_vars, cache_vars, accounts_filter_map, task_vars,
                   median_priority_fee, live,
                   existing_user_staking_accounts>>

----------------------------------------------------------------------------
(* Scheduler scans *)

\* The orders in which a HashMap may iterate over the keys of S.
IterationOrders(S) ==
    {order \in [1..Cardinality(S) -> S] :
        \A i, j \in 1..Cardinality(S) : order[i] = order[j] => i = j}

\* A test that lets an entry wait one more second.
ResolveDueStrict(cache, current_time) == {k \in DOMAIN cache : current_time > cache[k]}

\* if current_time >= *next_resolve_time
ResolveDue(cache, current_time) == {k \in DOMAIN cache : current_time >= cache[k]}

\* process_resolve_staking_rounds: every due entry is handed to
\* resolve_staking_round, an Err is logged, the function returns Ok(()).
process_resolve_staking_rounds(cache, current_time, failing) ==
    [ran |-> TRUE, now |-> current_time,
     due |-> ResolveDue(cache, current_time),
     invoked |-> ResolveDue(cache, current_time),
     failed |-> ResolveDue(cache, current_time) \cap failing]

\* The read guards a scan holds while it runs, in the order it takes them:
\* process_resolve_staking_rounds reads the resolve-time cache;
\* process_claim_stakes reads the claim cache and, inside its loop, the
\* UserStaking index.  The holder of the fee guard names the scan.
ReadGuardsOfScan(holder) ==
    CASE holder = "resolve" -> <<"staking_round_next_resolve_time_cache">>
      [] holder = "claim" -> <<"claim_cache", "indexed_user_staking_accounts">>
      [] OTHER -> <<>>

\* A guard bound to a local of the loop body, still held when the
\* statement is over.
ScanGuardKept(holder) == holder

\* The guard of *median_priority_fee.lock().await is a temporary of the
\* statement that calls the scan: it is dropped when the statement ends,
\* after the scan has returned.
ScanGuardDropped(holder) == "free"

\* median_priority_fee.lock().await in the argument list of a scan, and the
\* copy of the value behind the guard: the guard is held from here to the
\* end of the statement, the copy is what the scan hands to its actions.
LockMedianPriorityFee ==
    /\ UNCHANGED existing_staking_accounts
    /\ pc \in {"Resolve", "Claim"}
    /\ fee_mutex = "free"
    /\ fee_mutex' = IF pc = "Resolve" THEN "resolve" ELSE "claim"
    /\ scan_fee' = Some(median_priority_fee)
    /\ UNCHANGED <<pc, zero_attempts, mirror_vars, cache_vars, accounts_filter_map,
                   task_vars, trace_vars, live, median_priority_fee,
                   fee_task_pc, fee_published,
                   existing_user_staking_accounts>>

ResolveScan ==
    /\ UNCHANGED existing_staking_accounts
    /\ pc = "Resolve"
    /\ fee_mutex = "resolve"
    /\ fee_mutex' = ScanGuardDropped(fee_mutex)
    /\ scan_fee' = None
    /\ UNCHANGED <<fee_task_pc, fee_published>>
    /\ \E current_time \in Instants, failing \in SUBSET StakingKeys :
         /\ failing \subseteq ResolveDue(staking_round_next_resolve_time_cache, current_time)
         /\ resolve_scan' = process_resolve_staking_rounds(
                                staking_round_next_resolve_time_cache, current_time, failing)
    /\ pc' = "Claim"
    /\ last_message' = NoMessage
    /\ UNCHANGED <<zero_attempts, mirror_vars, cache_vars, accounts_filter_map, task_vars,
                   median_priority_fee, claim_scan, live,
                   existing_user_staking_accounts>>

\* .filter(|(_, last_claim_time)| last_claim_time.is_some()) and
\* if current_time >= last_claim_time.unwrap() + AUTO_CLAIM_THRESHOLD_SECONDS
ClaimDue(cache, current_time) ==
    {k \in DOMAIN cache :
        /\ cache[k] # None
        /\ \A t \in cache[k] : current_time >= t + AUTO_CLAIM_THRESHOLD_SECONDS}

\* What the collaborators do for one entry: the owner query (a row, a query
\* error, no row, a row that is no pubkey), the conversion of an undefined
\* staking_type by adrena_abi's get_staking_type (which has no variant for 0
\* to return, so it may abort), and the claim transaction.
EntryFates ==
    {"ok", "db_error", "no_row", "invalid_pubkey", "staking_type_panic", "claim_error"}

\* The body of the for loop for one due entry, in the order of the code.
ClaimEntry(key, fate, user_staking_accounts) ==
    IF fate = "db_error" THEN "db_error"
    ELSE IF fate = "no_row" THEN "no_row"
    ELSE IF fate = "invalid_pubkey" THEN "invalid_pubkey"
    ELSE IF key \notin DOMAIN user_staking_accounts THEN "not_indexed"
    ELSE IF user_staking_accounts[key].staking_type = 0 /\ fate = "staking_type_panic"
         THEN "staking_type_panic"
    ELSE IF fate = "claim_error" THEN "claim_error"
    ELSE "ok"

Panics == {"no_row", "invalid_pubkey", "not_indexed", "staking_type_panic"}

RECURSIVE ClaimLoop(_, _, _, _, _)
ClaimLoop(order, i, fates, user_staking_accounts, acc) ==
    IF i > Len(order) THEN acc
    ELSE LET key == order[i]
             outcome == ClaimEntry(key, fates[key], user_staking_accounts)
             seen == [acc EXCEPT !.evaluated = @ \cup {key}]
         IN  IF outcome = "ok"
             THEN ClaimLoop(order, i + 1, fates, user_staking_accounts,
                            [seen EXCEPT !.invoked = @ \cup {key}])
             ELSE [seen EXCEPT !.invoked = IF outcome = "claim_error"
                                            THEN @ \cup {key} ELSE @,
                               !.failure = outcome,
                               !.failed_key = key]

\* process_claim_stakes: the due entries in iteration order; the first entry
\* whose owner query or claim fails ends the function with that error (?),
\* the first entry without a row, or missing from the index, panics (expect).
process_claim_stakes(cache, user_staking_accounts, current_time, order, fates) ==
    ClaimLoop(order, 1, fates, user_staking_accounts,
              [ran |-> TRUE, now |-> current_time, due |-> ClaimDue(cache, current_time),
               evaluated |-> {}, invoked |-> {}, failure |-> "none", failed_key |-> "-"])

\* process_claim_stakes(..).await? in the core loop: Ok goes back to
\* stream.next(), Err leaves the closure with the (transient) error, a
\* panic unwinds main.
AfterClaimScan(failure) ==
    IF failure = "none" THEN "StreamNext"
    ELSE IF failure \in Panics THEN "Panicked"
    ELSE ReturnTransient

ClaimScan ==
    /\ UNCHANGED existing_staking_accounts
    /\ pc = "Claim"
    /\ fee_mutex = "claim"
    /\ \E current_time \in Instants :
         /\ current_time >= resolve_scan.now
         /\ \E order \in IterationOrders(ClaimDue(claim_cache, current_time)),
               fates \in [ClaimDue(claim_cache, current_time) -> EntryFates] :
              /\ claim_scan' = process_claim_stakes(claim_cache,
                                   indexed_user_staking_accounts, current_time, order, fates)
              /\ pc' = AfterClaimScan(claim_scan'.failure)
    /\ alive_fee_tasks' = FeeTasksAt(pc', alive_fee_tasks)
    /\ alive_db_tasks' = DbTasksAt(pc', alive_db_tasks, db_connection_task)
    /\ fee_mutex' = FeeMutexAt(pc', ScanGuardDropped(fee_mutex))
    /\ fee_task_pc' = FeeTaskPcAt(pc', fee_task_pc)
    /\ scan_fee' = None
    /\ UNCHANGED <<zero_attempts, mirror_vars, cache_vars, accounts_filter_map,
                   periodical_priority_fees_fetching_task, db_connection_task,
                   median_priority_fee, last_message, resolve_scan, live, fee_published,
                   existing_user_staking_accounts>>

----------------------------------------------------------------------------
Next ==
    \/ StartAttempt
    \/ Connect
    \/ DbConnect
    \/ ScanStaking
    \/ ScanUserStaking
    \/ Subscribe
    \/ SpawnFeeTask
    \/ FeeTaskTick
    \/ FeeTaskLock
    \/ FeeTaskAssign
    \/ DetachedFeeTaskTick
    \/ StreamTransportError
    \/ StreamMalformed
    \/ StreamOther
    \/ StreamStakingUpdate
    \/ StreamUserStakingUpdate
    \/ StreamUserStakingClose
    \/ StreamEnded
    \/ LockMedianPriorityFee
    \/ ResolveScan
    \/ ClaimScan

Spec == Init /\ [][Next]_vars

\* What runs without waiting for the other side: the retry driver calls the
\* closure again, every await of the closure on a request it made itself
\* ends (with a result or an error), the scans run to their end, and the
\* interval of the priority-fee task ticks.  The one await that has nothing
\* of the program behind it is stream.next(): the request is sent with
\* ping: None and the loop has no timer, so an item comes only when the
\* server sends one.
ProgramSteps ==
    /\ WF_vars(StartAttempt)
    /\ WF_vars(Connect)
    /\ WF_vars(DbConnect)
    /\ WF_vars(ScanStaking)
    /\ WF_vars(ScanUserStaking)
    /\ WF_vars(Subscribe)
    /\ WF_vars(SpawnFeeTask)
    /\ WF_vars(FeeTaskTick)
    /\ WF_vars(FeeTaskLock)
    /\ WF_vars(FeeTaskAssign)
    /\ WF_vars(LockMedianPriorityFee)
    /\ WF_vars(ResolveScan)
    /\ WF_vars(ClaimScan)

LiveSpec == Spec /\ ProgramSteps

----------------------------------------------------------------------------
(* Properties *)

Streaming == {"StreamNext", "Resolve", "Claim"}

\* Failures of the collaborators of a claim (owner query, owner row, claim
\* transaction).
PerActionFailures == {"db_error", "no_row", "claim_error"}

\* C1: in the claim scan a failing owner lookup or claim for one due entry
\* leaves every other due entry of the scan evaluated and claimed, and in the
\* resolve scan a failing resolve leaves every other due pool resolved.
C1_EntriesIndependent ==
    /\ resolve_scan.ran => resolve_scan.invoked = resolve_scan.due
    /\ (claim_scan.ran /\ claim_scan.failure \in PerActionFailures) =>
          (claim_scan.due \ {claim_scan.failed_key}) \subseteq claim_scan.invoked

\* C2: a failure of the resolve action, of the claim action or of the owner
\* lookup never moves the supervisor out of the streaming loop.
C2_PerActionStaysStreaming ==
    /\ (resolve_scan.ran /\ resolve_scan.failed # {}) => pc \in Streaming
    /\ (claim_scan.ran /\ claim_scan.failure \in PerActionFailures) => pc \in Streaming

\* C3: when the owner directory has no row for a due claim entry, only that
\* claim is aborted: the process keeps running, the other due entries are
\* evaluated, and the loop waits for the next stream event.
C3_OwnerMissAbortsOnlyClaim ==
    (claim_scan.ran /\ claim_scan.failure = "no_row") =>
        /\ pc = "StreamNext"
        /\ claim_scan.evaluated = claim_scan.due

\* C4 as stated: after a transport-level error delivered in place of a
\* stream event the supervisor has left the streaming loop for Backoff.
C4_TransportErrorBacksOff ==
    last_message.kind = "transport_error" => pc = ReturnTransient

\* C4 as amended: a transport-level error delivered in place of a stream
\* event is only logged: the closure stays in the core loop of the current
\* attempt and goes on to the scans, with the mirror, the caches, the issued
\* filter and the tasks as they were.
C4_TransportErrorStaysInLoop ==
    [][(pc = "StreamNext" /\ last_message'.kind = "transport_error") =>
          /\ pc' = "Resolve"
          /\ UNCHANGED <<mirror_vars, cache_vars, accounts_filter_map, task_vars>>]_vars

C4_Witness ==
    /\ last_message.kind = "transport_error"
    /\ pc = "Resolve"
    /\ DOMAIN indexed_user_staking_accounts # {}
    /\ DOMAIN claim_cache # {}

\* C5: the tasks of the previous attempt are cancelled before a new one, so
\* at most one priority-fee task and at most one db connection task are
\* alive at any time.
C5_AtMostOneTaskEach ==
    /\ Cardinality(alive_fee_tasks) <= 1
    /\ Cardinality(alive_db_tasks) <= 1

\* C6: the process stops only because the stream event processor returned a
\* fatal result; no retryable and no per-action failure ends it.  (The abort
\* of get_staking_type on an undefined staking_type is left aside: it is
\* adrena_abi's, not this crate's.)
C6_OnlyFatalStops ==
    (pc \in Stopped /\ claim_scan.failure # "staking_type_panic") =>
        /\ pc = "Exited"
        /\ last_message.result = "Permanent"

\* C7: a fatal result of the stream event processor ends the pipeline with
\* no retry: the loop is left, the closure is not called again and no
\* further step is taken.
C7_FatalEndsWithoutRetry ==
    /\ last_message.result = "Permanent" => pc = "Exited"
    /\ pc = "Exited" => (~ENABLED StartAttempt /\ ~ENABLED Next)

C7_Witness ==
    /\ pc = "Exited"
    /\ last_message.kind = "malformed"
    /\ DOMAIN indexed_user_staking_accounts # {}

\* C8: the key set of the indexed UserStaking accounts is exactly the set of
\* addresses that got a create/update (or a bootstrap merge) with no close
\* after it.
C8_MirrorKeysAreLive == DOMAIN indexed_user_staking_accounts = live

C8_Witness ==
    /\ last_message.kind = "user_staking_close"
    /\ last_message.key \notin DOMAIN indexed_user_staking_accounts
    /\ live # {}
    /\ Cardinality(alive_fee_tasks) = 2

\* The earliest claim time among the locked stakes, as a set.
EarliestPending(user_staking) ==
    LET ts == UNION {user_staking.locked_stakes[i] :
                        i \in 1..Len(user_staking.locked_stakes)}
    IN  {t \in ts : \A u \in ts : t <= u}

CachesDerived ==
    /\ claim_cache = [k \in DOMAIN indexed_user_staking_accounts |->
                          EarliestPending(indexed_user_staking_accounts[k])]
    /\ staking_round_next_resolve_time_cache =
           [k \in DOMAIN indexed_staking_accounts |->
                indexed_staking_accounts[k].round_start_time + ROUND_MIN_DURATION_SECONDS]

\* C9 as stated: in every reachable state, between the bootstrap merges and
\* the cache update too, both caches are the function of the mirror.
C9_CachesAlwaysDerived == CachesDerived

\* C9 as amended: from the end of the bootstrap of an attempt on (the open
\* of the subscription, every message, every scan) both caches are the
\* function of the mirror; between a bootstrap merge and the cache update
\* after it they may lag.
C9_CachesDerivedWhileStreaming ==
    pc \in {"Subscribe", "SpawnFeeTask"} \cup Streaming => CachesDerived

C9_Witness ==
    /\ pc = "Resolve"
    /\ last_message.kind = "user_staking_create_update"
    /\ Cardinality(alive_fee_tasks) = 2
    /\ DOMAIN staking_round_next_resolve_time_cache = StakingKeys
    /\ DOMAIN claim_cache = UserStakingKeys

\* C10: right after a create/update of a UserStaking address its claim cache
\* entry is the minimum claim time of its locked stakes, or None when no
\* stake has one; right after its close the entry is gone.
C10_ClaimCacheEntryIsMinimum ==
    /\ (pc = "Resolve" /\ last_message.kind = "user_staking_create_update") =>
          /\ last_message.key \in DOMAIN claim_cache
          /\ claim_cache[last_message.key] =
                EarliestPending(indexed_user_staking_accounts[last_message.key])
    /\ (pc = "Resolve" /\ last_message.kind = "user_staking_close") =>
          last_message.key \notin DOMAIN claim_cache

\* Stakes pending at [100, 200] give 100; with the first one cleared, 200.
C10_Witness ==
    /\ pc = "Resolve"
    /\ last_message = [kind |-> "user_staking_create_update", key |-> "u1", result |-> "Ok"]
    /\ "u2" \in DOMAIN indexed_user_staking_accounts
    /\ indexed_user_staking_accounts["u2"].locked_stakes = <<Some(100), Some(200)>>
    /\ claim_cache["u2"] = Some(100)
    /\ indexed_user_staking_accounts["u1"].locked_stakes = <<None, Some(200)>>
    /\ claim_cache["u1"] = Some(200)

\* A step that builds the filter map: the open of the subscription, or a
\* message after which another map is in force.
FilterMapBuilt ==
    \/ pc = "Subscribe" /\ pc' = "SpawnFeeTask"
    \/ accounts_filter_map' # accounts_filter_map

\* C11: right after every build of the filter map (open of the subscription
\* and every re-issue) the account list of the close group is exactly the
\* key set of the indexed UserStaking accounts of that moment and holds no
\* Staking address, and the two create/update groups carry the owner program
\* and the discriminator of their account type and name no account.
C11_FilterMapMatchesIndex ==
    [][FilterMapBuilt =>
          /\ accounts_filter_map'.user_staking_close.account =
                 DOMAIN indexed_user_staking_accounts'
          /\ accounts_filter_map'.user_staking_close.account \cap StakingKeys = {}
          /\ accounts_filter_map'.staking_create_update =
                 FilterAccounts({}, {ProgramId}, {DiscriminatorFilter("Staking")})
          /\ accounts_filter_map'.user_staking_create_update =
                 FilterAccounts({}, {ProgramId}, {DiscriminatorFilter("UserStaking")})]_vars

\* A close has shrunk a close list of two addresses to one, with both
\* Staking accounts indexed.
C11_Witness ==
    /\ pc = "Resolve"
    /\ last_message.kind = "user_staking_close"
    /\ Cardinality(accounts_filter_map.user_staking_close.account) = 1
    /\ DOMAIN indexed_staking_accounts = StakingKeys

\* C12: a message that adds a new UserStaking address or closes a known one
\* has, when the processor returns, sent the filter map of the new key set
\* on the stream that is open (the closure goes on to the scans of the same
\* attempt, with its tasks, and does not subscribe again), and an update of
\* an address already indexed leaves the filter map as it was.
C12_FilterMapFollowsKeySet ==
    [][pc = "StreamNext" =>
          /\ DOMAIN indexed_user_staking_accounts' # DOMAIN indexed_user_staking_accounts =>
                /\ accounts_filter_map' =
                       generate_accounts_filter_map(indexed_user_staking_accounts')
                /\ accounts_filter_map' # accounts_filter_map
                /\ pc' = "Resolve"
                /\ UNCHANGED task_vars
          /\ (/\ last_message'.kind = "user_staking_create_update"
              /\ last_message'.key \in DOMAIN indexed_user_staking_accounts) =>
                UNCHANGED accounts_filter_map]_vars

\* The second address has just been added: the close list has both.
C12_Witness ==
    /\ pc = "Resolve"
    /\ last_message.kind = "user_staking_create_update"
    /\ accounts_filter_map.user_staking_close.account = UserStakingKeys
    /\ DOMAIN indexed_user_staking_accounts = UserStakingKeys
    /\ Cardinality(alive_fee_tasks) = 1

\* C13: a resolve scan invokes the resolve of a Staking account iff its
\* entry of the resolve time cache is <= the time the scan read; the entry
\* of an account whose round started at T0 is T0 + 3600, so a scan at
\* T0 + 3599 does not invoke it and every scan at T0 + 3600 or later does,
\* whatever earlier scans did, for as long as the entry is the same.
C13_ResolveIffDue ==
    resolve_scan.ran =>
        /\ resolve_scan.invoked =
               {k \in DOMAIN staking_round_next_resolve_time_cache :
                   staking_round_next_resolve_time_cache[k] <= resolve_scan.now}
        /\ \A k \in DOMAIN indexed_staking_accounts :
              LET T0 == indexed_staking_accounts[k].round_start_time
              IN  /\ staking_round_next_resolve_time_cache[k] = T0 + 3600
                  /\ resolve_scan.now <= T0 + 3599 => k \notin resolve_scan.invoked
                  /\ resolve_scan.now >= T0 + 3600 => k \in resolve_scan.invoked

\* A scan at 3600: the account whose round started at 0 is resolved, the
\* one whose round started at 100 is not.
C13_Witness ==
    /\ resolve_scan.ran
    /\ resolve_scan.now = 3600
    /\ DOMAIN indexed_staking_accounts = StakingKeys
    /\ indexed_staking_accounts["adx"].round_start_time = 0
    /\ indexed_staking_accounts["alp"].round_start_time = 100
    /\ resolve_scan.invoked = {"adx"}

\* C14: a claim scan triggers the claim of a UserStaking account iff its
\* entry of the claim cache holds a time L and the time the scan read is
\* >= L + 25 * ROUND_MIN_DURATION_SECONDS; an entry that holds no time
\* triggers nothing.  (Triggered is taken at its widest: the scan got as far
\* as the owner query of the entry.)
C14_ClaimIffDue ==
    claim_scan.ran =>
        \A k \in DOMAIN claim_cache :
            k \in claim_scan.evaluated <=>
                /\ claim_cache[k] # None
                /\ \A L \in claim_cache[k] :
                      claim_scan.now >= L + 25 * ROUND_MIN_DURATION_SECONDS

\* C15: nothing but a message of the stream takes an address out of the
\* indexes or an entry out of the caches: from the end of one attempt
\* through the teardown, the connect and the bootstrap of the next, every
\* address indexed before is indexed after, with an entry in its cache, also
\* a UserStaking account the scan of the retry no longer returns.
C15_RetryKeepsIndexesAndCaches ==
    [][pc # "StreamNext" =>
          /\ DOMAIN indexed_staking_accounts \subseteq DOMAIN indexed_staking_accounts'
          /\ DOMAIN indexed_user_staking_accounts \subseteq
                 DOMAIN indexed_user_staking_accounts'
          /\ DOMAIN staking_round_next_resolve_time_cache \subseteq
                 DOMAIN staking_round_next_resolve_time_cache'
          /\ DOMAIN claim_cache \subseteq DOMAIN claim_cache']_vars

\* The bootstrap of a retry (an earlier attempt got as far as its fee task)
\* whose scan does not return u1: it is still indexed, cached and watched.
C15_Witness ==
    /\ pc = "Subscribe"
    /\ alive_fee_tasks # {}
    /\ "u1" \notin DOMAIN existing_user_staking_accounts
    /\ "u1" \in DOMAIN indexed_user_staking_accounts
    /\ "u1" \in DOMAIN claim_cache
    /\ "u1" \in accounts_filter_map.user_staking_close.account
    /\ "alp" \in DOMAIN indexed_staking_accounts
    /\ "alp" \in DOMAIN staking_round_next_resolve_time_cache

\* The addresses the scan of the bootstrap under way returned with an
\* undefined staking_type.
ScannedUndefined ==
    {k \in DOMAIN existing_user_staking_accounts :
        existing_user_staking_accounts[k].staking_type = 0}

\* C16 as stated: after every bootstrap, of the first attempt or of a retry,
\* no address the scan returned with an undefined staking_type is a key of
\* the indexed UserStaking accounts, of the claim cache or of the close list
\* built from the index.
C16_NoScannedUndefinedIndexed ==
    pc \in {"Subscribe", "SpawnFeeTask"} =>
        \A k \in ScannedUndefined :
            /\ k \notin DOMAIN indexed_user_staking_accounts
            /\ k \notin DOMAIN claim_cache
            /\ pc = "SpawnFeeTask" =>
                  k \notin accounts_filter_map.user_staking_close.account

\* C16 as amended: the bootstrap drops an address scanned with an undefined
\* staking_type before the merge, so it neither adds the address to the
\* index or to the claim cache nor touches what the index holds for it: such
\* an address is a key after the bootstrap only if it was one before, and
\* the close list sent next holds it only if the index does.
C16_BootstrapAddsNoScannedUndefined ==
    [][/\ (pc = "ScanUserStaking" /\ pc' = "Subscribe") =>
             \A k \in DOMAIN existing_user_staking_accounts' :
                 existing_user_staking_accounts'[k].staking_type = 0 =>
                     /\ k \in DOMAIN indexed_user_staking_accounts' <=>
                            k \in DOMAIN indexed_user_staking_accounts
                     /\ k \in DOMAIN indexed_user_staking_accounts =>
                            indexed_user_staking_accounts'[k] =
                                indexed_user_staking_accounts[k]
                     /\ k \in DOMAIN claim_cache' =>
                            k \in DOMAIN claim_cache \cup DOMAIN indexed_user_staking_accounts
       /\ (pc = "Subscribe" /\ pc' = "SpawnFeeTask") =>
             \A k \in ScannedUndefined :
                 k \in accounts_filter_map'.user_staking_close.account <=>
                     k \in DOMAIN indexed_user_staking_accounts]_vars

\* The subscription is open after a scan that returned u1 undefined and u2
\* defined: only u2 is indexed, cached and watched.
C16_Witness ==
    /\ pc = "SpawnFeeTask"
    /\ ScannedUndefined = {"u1"}
    /\ DOMAIN existing_user_staking_accounts = UserStakingKeys
    /\ DOMAIN indexed_user_staking_accounts = {"u2"}
    /\ DOMAIN claim_cache = {"u2"}
    /\ accounts_filter_map.user_staking_close.account = {"u2"}

\* The steps of one call of the retry closure, in the order of the code.
AttemptOrder ==
    <<"Connect", "DbConnect", "ScanStaking", "ScanUserStaking", "Subscribe",
      "SpawnFeeTask", "StreamNext">>

C18_ScansOncePerIteration ==
    [][/\ (pc = "StreamNext" /\ last_message'.kind # "none") =>
             \/ pc' = "Resolve" /\ ~resolve_scan'.ran /\ ~claim_scan'.ran
             \/ pc' = "Exited" /\ last_message'.result = "Permanent"
       /\ (pc = "Resolve" /\ pc' # pc) =>
             pc' = "Claim" /\ ~resolve_scan.ran /\ resolve_scan'.ran /\ ~claim_scan'.ran
       /\ (pc = "Claim" /\ pc' # pc) =>
             /\ resolve_scan.ran /\ UNCHANGED resolve_scan
             /\ ~claim_scan.ran /\ claim_scan'.ran
       /\ (pc' = "StreamNext" /\ pc' # pc) =>
             pc = "SpawnFeeTask" \/ pc = "Claim"]_vars

\* Both scans of an iteration have run, each with something to invoke, and
\* the loop is back at the read of the stream.
C18_Witness ==
    /\ pc = "StreamNext"
    /\ resolve_scan.ran /\ resolve_scan.invoked # {}
    /\ claim_scan.ran /\ claim_scan.invoked # {}
    /\ claim_scan.now >= resolve_scan.now

\* The indexes, the caches and the filter map in force.
applied_vars == <<mirror_vars, cache_vars, accounts_filter_map>>

\* The last message is applied in full: what it did to the index, to the
\* cache and to the filter map is all there.
LastMessageApplied ==
    /\ CachesDerived
    /\ accounts_filter_map = generate_accounts_filter_map(indexed_user_staking_accounts)
    /\ last_message.kind = "staking_create_update" =>
          /\ last_message.key \in DOMAIN indexed_staking_accounts
          /\ last_message.key \in DOMAIN staking_round_next_resolve_time_cache
    /\ last_message.kind = "user_staking_create_update" =>
          /\ last_message.key \in DOMAIN indexed_user_staking_accounts
          /\ last_message.key \in DOMAIN claim_cache
          /\ last_message.key \in accounts_filter_map.user_staking_close.account
    /\ last_message.kind = "user_staking_close" =>
          /\ last_message.key \notin DOMAIN indexed_user_staking_accounts
          /\ last_message.key \notin DOMAIN claim_cache
          /\ last_message.key \notin accounts_filter_map.user_staking_close.account

\* C19: messages are applied one at a time, each in full before anything
\* else happens: a message is read only at the read of the stream (not
\* while a scan of the iteration is pending), one message is one step on
\* the indexes, the caches and the filter map, nothing else (no scan, no
\* task) touches them while the stream is consumed, and both scans run on a
\* state in which the message of their iteration is applied in full.
C19_MessagesAppliedOneAtATime ==
    [][/\ (last_message' # last_message /\ last_message'.kind # "none") =>
             /\ pc = "StreamNext"
             /\ last_message.kind = "none"
             /\ pc' = "Resolve" => LastMessageApplied'
       /\ (pc \in {"StreamNext", "Resolve", "Claim"} /\ last_message' = last_message) =>
             UNCHANGED applied_vars
       /\ (pc \in {"Resolve", "Claim"} /\ pc' # pc) =>
             LastMessageApplied /\ UNCHANGED applied_vars]_vars

\* An update of the adx Staking account is applied and the resolve scan is
\* about to run, while the priority-fee task of the attempt has stored a
\* fee and the task of an earlier attempt is still running.
C19_Witness ==
    /\ pc = "Resolve"
    /\ last_message = [kind |-> "staking_create_update", key |-> "adx", result |-> "Ok"]
    /\ staking_round_next_resolve_time_cache["adx"] = 3700
    /\ median_priority_fee = 7
    /\ Cardinality(alive_fee_tasks) = 2
    /\ DOMAIN claim_cache = UserStakingKeys

\* C20: with the connection up, an entry whose deadline has passed is acted
\* on without any message for its address having to come.  The deadline
\* passes by itself while the loop waits, and the action is invoked by the
\* next scan only, so the claim needs this: whenever the loop waits at the
\* read of the stream with an entry in a cache, it gets to a resolve scan
\* (or the attempt ends).
C20_WaitingLoopGetsToScan ==
    (pc = "StreamNext" /\ DOMAIN staking_round_next_resolve_time_cache # {}
                      /\ DOMAIN claim_cache # {})
        ~> (pc # "StreamNext")

C23_StakingKeysOnlyGrow ==
    [][/\ DOMAIN indexed_staking_accounts \subseteq DOMAIN indexed_staking_accounts'
       /\ DOMAIN staking_round_next_resolve_time_cache \subseteq
              DOMAIN staking_round_next_resolve_time_cache']_vars

\* In a second attempt a close has emptied the index of the UserStaking
\* accounts; both Staking accounts are indexed and cached as before.
C23_Witness ==
    /\ pc = "Resolve"
    /\ last_message.kind = "user_staking_close"
    /\ indexed_user_staking_accounts = EmptyMap
    /\ DOMAIN indexed_staking_accounts = StakingKeys
    /\ DOMAIN staking_round_next_resolve_time_cache = StakingKeys
    /\ Cardinality(alive_fee_tasks) = 2

\* C24: a message that is neither a create/update nor a close of a watched
\* account (a ping, say) leaves the indexes, both caches and the filter map
\* in force as they were, and the iteration goes on to the scans like any
\* other.
C24_OtherMessageChangesNothing ==
    [][(last_message' # last_message /\ last_message'.kind = "other") =>
          /\ UNCHANGED applied_vars
          /\ pc = "StreamNext" /\ pc' = "Resolve"
          /\ ~resolve_scan'.ran /\ ~claim_scan'.ran]_vars

\* A ping has come with two accounts of each kind indexed and watched.
C24_Witness ==
    /\ pc = "Resolve"
    /\ last_message.kind = "other"
    /\ DOMAIN indexed_staking_accounts = StakingKeys
    /\ DOMAIN claim_cache = UserStakingKeys
    /\ accounts_filter_map.user_staking_close.account = UserStakingKeys

\* What the first half of C25 says: a scan, whatever its actions return,
\* leaves the indexes and both caches as they were.
ScansLeaveEntries ==
    [][(pc \in {"Resolve", "Claim"} /\ pc' # pc) =>
          UNCHANGED <<mirror_vars, cache_vars>>]_vars

\* C25: a scan writes nothing, so an entry that is due stays due and is
\* fired by every scan until a message changes it: a resolve scan invokes
\* every entry that is due at its time, and so does a claim scan, the one
\* entry aside whose own owner query failed.  (Scans that end in a panic are
\* left aside.)
C25_DueEntryFiresInEveryScan ==
    /\ resolve_scan.ran =>
          ResolveDue(staking_round_next_resolve_time_cache, resolve_scan.now)
              \subseteq resolve_scan.invoked
    /\ (claim_scan.ran /\ claim_scan.failure \notin Panics) =>
          \A k \in ClaimDue(claim_cache, claim_scan.now) :
              k \in claim_scan.invoked \/ k = claim_scan.failed_key

\* C26: whenever a claim scan is about to run or has run, every address
\* whose claim cache entry holds a timestamp is a key of the UserStaking
\* index, and no claim scan ever fails on the index lookup of a due entry.
C26_ClaimCacheKeysAreIndexed ==
    /\ (pc = "Claim" \/ claim_scan.ran) =>
          \A k \in DOMAIN claim_cache :
              claim_cache[k] # None => k \in DOMAIN indexed_user_staking_accounts
    /\ claim_scan.failure # "not_indexed"

\* A claim scan of a second attempt that looked up and claimed the one
\* account left in the cache and in the index.
C26_Witness ==
    /\ claim_scan.ran
    /\ claim_scan.invoked = {"u2"}
    /\ DOMAIN claim_cache = {"u2"}
    /\ DOMAIN indexed_user_staking_accounts = {"u2"}
    /\ "u1" \notin live
    /\ Cardinality(alive_fee_tasks) = 2

\* The loop stands before a scan and nothing but the fee guard is between
\* it and the scan: the guard is free, or the fee task holds it for its
\* assignment and can drop it.
ScanCanStart ==
    \/ ENABLED LockMedianPriorityFee
    \/ fee_mutex = "task" /\ ENABLED FeeTaskAssign

\* C27: when stream.next() yields None the loop stays in the streaming
\* phase: nothing is processed (indexes, caches and filter map unchanged),
\* no task is spawned or aborted, the attempt is not ended, and the next
\* step of the loop is the resolve scan of that same iteration, which can
\* start at once.
C27_StreamEndKeepsStreaming ==
    [][(last_message' # last_message /\ last_message'.kind = "stream_end") =>
          /\ pc = "StreamNext" /\ pc' = "Resolve"
          /\ UNCHANGED <<applied_vars, task_vars, zero_attempts, median_priority_fee>>
          /\ ~resolve_scan'.ran /\ ~claim_scan'.ran
          /\ ScanCanStart']_vars

\* The stream has ended in a second attempt with due entries in both caches:
\* the loop stands before its resolve scan.
C27_Witness ==
    /\ pc = "Resolve"
    /\ last_message.kind = "stream_end"
    /\ DOMAIN staking_round_next_resolve_time_cache = StakingKeys
    /\ \E k \in DOMAIN claim_cache : claim_cache[k] # None
    /\ Cardinality(alive_fee_tasks) = 2

\* C30: once the processor has returned a permanent error the loop is left
\* before the scans of that iteration: no scan has run since the message, and
\* no step of the program, scan or other, can be taken any more.  After a
\* transient error the loop stands before the resolve scan of that
\* iteration, which can start or has started and can run.
C30_PermanentEndsScansTransientDoesNot ==
    /\ last_message.result = "Permanent" =>
          /\ pc = "Exited"
          /\ ~resolve_scan.ran /\ ~claim_scan.ran
          /\ ~ENABLED LockMedianPriorityFee
          /\ ~ENABLED ResolveScan /\ ~ENABLED ClaimScan
          /\ ~ENABLED Next
    /\ pc = "Exited" => last_message.result = "Permanent"
    /\ last_message.result = "Transient" =>
          /\ pc = "Resolve"
          /\ ScanCanStart \/ ENABLED ResolveScan

\* The loop was left on a permanent error while entries of both caches were
\* cached.
C30_Witness ==
    /\ pc = "Exited"
    /\ last_message.result = "Permanent"
    /\ DOMAIN staking_round_next_resolve_time_cache = StakingKeys
    /\ \E k \in DOMAIN claim_cache : claim_cache[k] # None

\* The fee task holds the guard exactly while it stands at its assignment,
\* where it needs nothing to finish and drop the guard; while it waits for a
\* tick or a sample it holds no guard and can sample; and a loop that stands
\* before a scan without the guard can get it, at once or after the
\* assignment.
FeeGuardOnlyForAssignment ==
    /\ fee_mutex = "task" <=> fee_task_pc = "Assign"
    /\ fee_task_pc = "Assign" => ENABLED FeeTaskAssign
    /\ (fee_task_pc = "Tick" /\ pc \in Streaming) => ENABLED FeeTaskTick
    /\ (pc \in {"Resolve", "Claim"} /\ fee_mutex \notin {"resolve", "claim"}) =>
          ScanCanStart

\* C21: the fee changes only in the assignment of the fee task, which is
\* reached only with a sample that succeeded (the one other writer is the
\* new Arc of an attempt, which starts at 0); a failed sample stores nothing
\* and leaves the task waiting for its next tick; the task holds the fee
\* guard for the assignment only, never while it fetches, so the loop never
\* waits for a sample.
C21_FeeStoredOnlyAfterSample ==
    [][/\ FeeGuardOnlyForAssignment
       /\ FeeGuardOnlyForAssignment'
       /\ median_priority_fee' # median_priority_fee =>
             \/ fee_task_pc = "Assign" /\ fee_mutex = "task" /\ fee_task_pc' = "Tick"
                   /\ median_priority_fee' \in FeeSamples
             \/ pc = "SpawnFeeTask" /\ median_priority_fee' = 0
       /\ (fee_task_pc = "Tick" /\ fee_task_pc' # "Tick") =>
             /\ fee_task_pc' \in {"Lock", "-"}
             /\ UNCHANGED median_priority_fee]_vars

\* The loop stands before its resolve scan while the fee task, which has
\* stored a sample before, holds the guard to store the next one.
C21_Witness ==
    /\ pc = "Resolve"
    /\ fee_mutex = "task"
    /\ fee_task_pc = "Assign"
    /\ fee_published
    /\ median_priority_fee = 7

\* What a scan of the current attempt may be given: the sample stored last
\* by the task spawned in this attempt, or 0 while that task has stored
\* none.
FeeOfCurrentAttempt ==
    IF fee_published THEN median_priority_fee \in FeeSamples
    ELSE median_priority_fee = 0

\* C28: the fee handed to the actions of a scan is read once, when the scan
\* is called, and is the value stored last by the fee task of the current
\* attempt, or 0 if that task has stored none; it does not change while the
\* scan runs; the spawn of the task of an attempt starts from a fee of 0
\* with nothing stored; and what the tasks of earlier attempts store is
\* never the value the loop reads.
C28_ScanFeeIsOfCurrentAttempt ==
    [][/\ (pc \in Streaming => FeeOfCurrentAttempt)
       /\ (pc' \in Streaming => FeeOfCurrentAttempt')
       /\ (scan_fee' # scan_fee /\ scan_fee' # None) =>
             /\ scan_fee' = Some(median_priority_fee)
             /\ \E fee \in (IF fee_published THEN FeeSamples ELSE {0}) :
                   scan_fee' = Some(fee)
             /\ fee_mutex' \in {"resolve", "claim"}
       /\ (fee_mutex \in {"resolve", "claim"} /\ pc' = pc) =>
             /\ scan_fee # None
             /\ UNCHANGED <<scan_fee, median_priority_fee, fee_published>>
       /\ (pc = "SpawnFeeTask" /\ pc' # pc) =>
             median_priority_fee' = 0 /\ ~fee_published']_vars

\* A scan of a second attempt is under way with a fee of 0: the task of
\* this attempt has stored nothing yet, the task of the first attempt is
\* still running.
C28_Witness ==
    /\ fee_mutex = "claim"
    /\ scan_fee = Some(0)
    /\ ~fee_published
    /\ Cardinality(alive_fee_tasks) = 2
    /\ periodical_priority_fees_fetching_task = Some(2)
    /\ fee_task_pc = "Lock"

\* Nobody waits in a circle: a guard named after a scan is held only while
\* the loop stands at that scan, which can then run to its end and drop it;
\* the fee task holds the guard only at its assignment, which can finish; a
\* fee task that asks for the guard finds it free or held by a scan that can
\* end; a loop that asks for it finds it free or held by the assignment.
NoWaitCycle ==
    /\ fee_mutex = "resolve" => pc = "Resolve" /\ ENABLED ResolveScan
    /\ fee_mutex = "claim" => pc = "Claim" /\ ENABLED ClaimScan
    /\ fee_mutex = "task" => fee_task_pc = "Assign" /\ ENABLED FeeTaskAssign
    /\ fee_task_pc = "Lock" =>
          \/ ENABLED FeeTaskLock
          \/ fee_mutex = "resolve" /\ ENABLED ResolveScan
          \/ fee_mutex = "claim" /\ ENABLED ClaimScan
    /\ (pc \in {"Resolve", "Claim"} /\ ReadGuardsOfScan(fee_mutex) = <<>>) =>
          ScanCanStart

Overwritten(before, after, scanned) ==
    /\ DOMAIN after = DOMAIN before \cup DOMAIN scanned
    /\ \A k \in DOMAIN scanned : after[k] = scanned[k]
    /\ \A k \in DOMAIN before \ DOMAIN scanned : after[k] = before[k]

\* C31: the bootstrap merge overwrites.  The step that merges the Staking
\* scan leaves every scanned address with its scanned value in the index and
\* every other address as it was; the step that merges the UserStaking scan
\* does the same with the scanned accounts whose staking type is defined,
\* an account scanned with an undefined type counting as not scanned.
C31_BootstrapMergeOverwrites ==
    [][/\ (pc = "ScanStaking" /\ pc' = "ScanUserStaking") =>
             /\ Overwritten(indexed_staking_accounts, indexed_staking_accounts',
                            existing_staking_accounts')
             /\ UNCHANGED indexed_user_staking_accounts
       /\ (pc = "ScanUserStaking" /\ pc' = "Subscribe") =>
             /\ Overwritten(indexed_user_staking_accounts,
                            indexed_user_staking_accounts',
                            WithStakingType(existing_user_staking_accounts'))
             /\ UNCHANGED indexed_staking_accounts]_vars

\* The bootstrap of a second attempt has merged a Staking scan that returned
\* adx with a round start other than the one the stream had stored for it
\* (the resolve-time cache, not yet recomputed, still holds the old one),
\* while alp, which the scan did not return, is still indexed.
C31_Witness ==
    /\ pc = "ScanUserStaking"
    /\ alive_fee_tasks # {}
    /\ DOMAIN existing_staking_accounts = {"adx"}
    /\ DOMAIN indexed_staking_accounts = StakingKeys
    /\ indexed_staking_accounts["adx"] = existing_staking_accounts["adx"]
    /\ "adx" \in DOMAIN staking_round_next_resolve_time_cache
    /\ staking_round_next_resolve_time_cache["adx"] #
           NextResolveTime(indexed_staking_accounts["adx"])

====
